---- MODULE Spec2Model ----
(***************************************************************************)
(* PgPersistence (src/lib/pg-persistence.js): the per-session repository   *)
(* of the todo application, together with the two tables its statements    *)
(* act on.  The store is the pair of tables todolists and todos; every     *)
(* handler of the class is one action that runs its SQL statement(s)       *)
(* against the store and records the value the returned promise settles    *)
(* with.                                                                   *)
(***************************************************************************)
EXTENDS Integers, Sequences, FiniteSets, TLC

\* Bounds of the model: the number of rows ever inserted into the two tables
\* (MaxRaceRows where loadTodoList is followed statement by statement), the
\* number of statements of other requests that run between the two reads of
\* a loadTodoList call, and the number of todos of a todo list handed to a
\* helper on its own.
MaxRows == 3
MaxRaceRows == 2
MaxBetween == 2
MaxLen == 3

\* The sessions' usernames (constructor, this.username).
Users == {"u1", "u2"}

\* Titles are strings, kept as sequences of character codes so that lower()
\* and the ordering of strings are computed: "a" and "B".
Titles == {<<97>>, <<66>>}

\* undefined, the value of rows[0] when there is no row.
Undefined == [undefined |-> TRUE]

VARIABLES
  todolists,   \* table todolists: rows [id, title, username]
  todos,       \* table todos: rows [id, todolist_id, title, done, username]
  nextListId,  \* serial sequence of todolists.id
  nextTodoId,  \* serial sequence of todos.id
  last,        \* the last call: handler, session username, arguments, result
  load,        \* a loadTodoList call in flight, statement by statement
  input,       \* argument of a helper applied on its own
  output       \* and what the helper returned

vars == <<todolists, todos, nextListId, nextTodoId, last, load, input, output>>
store == <<todolists, todos, nextListId, nextTodoId>>

\* The ids calls are made with: every id a serial column has given out, and
\* the next one, which stands for the ids that name no row yet.
ListIds == 1..nextListId
TodoIds == 1..nextTodoId
Inserted == (nextListId - 1) + (nextTodoId - 1)

----------------------------------------------------------------------------
\* Strings.

\* lower(title) of the ORDER BY clauses: A..Z to a..z, every other code kept.
Lower(s) == [i \in DOMAIN s |-> IF s[i] >= 65 /\ s[i] <= 90 THEN s[i] + 32 ELSE s[i]]

\* a <= b in the ordering of strings (code by code, a prefix first).
RECURSIVE StrLeq(_, _)
StrLeq(a, b) ==
  IF a = <<>> THEN TRUE
  ELSE IF b = <<>> THEN FALSE
  ELSE IF Head(a) < Head(b) THEN TRUE
  ELSE IF Head(a) > Head(b) THEN FALSE
  ELSE StrLeq(Tail(a), Tail(b))

\* FALSE sorts before TRUE (ORDER BY done ASC).
BoolLt(a, b) == (~a) /\ b

\* Every enumeration of a finite set of rows: the row orders a SELECT
\* without a total ORDER BY may produce.
Enumerations(S) ==
  {s \in [1..Cardinality(S) -> S] : \A i, j \in 1..Cardinality(S) : s[i] = s[j] => i = j}

----------------------------------------------------------------------------
\* The schema the statements run against.

\* todos.todolist_id REFERENCES todolists (id): an insert needs a list with
\* that id, whoever owns it.
ForeignKeyHolds(todoListId) == \E r \in todolists : r.id = todoListId

\* UNIQUE (title, username) on todolists; self is the id of the row being
\* updated (0 for an insert).
UniqueTitleHolds(title, username, self) ==
  \A r \in todolists : (r.title = title /\ r.username = username) => r.id = self

\* ON DELETE CASCADE: the todos that go with the deleted list rows.
Cascade(deleted) == {t \in todos : \E r \in deleted : t.todolist_id = r.id}

\* The record of a call whose promise resolved to ret, rowCount being the
\* number of rows its statement affected, and of a call whose promise
\* rejected with the error the statement raised.
Call(op, username, todoListId, todoId, ret, rowCount) ==
  [op |-> op, username |-> username, todoListId |-> todoListId,
   todoId |-> todoId, threw |-> FALSE, ret |-> ret, rowCount |-> rowCount]
Thrown(op, username, todoListId, todoId) ==
  [op |-> op, username |-> username, todoListId |-> todoListId,
   todoId |-> todoId, threw |-> TRUE, ret |-> Undefined, rowCount |-> 0]

----------------------------------------------------------------------------
\* Pure helpers of the class.

\* todos.every(todo => todo.done), left to right.
RECURSIVE Every(_)
Every(ts) == IF ts = <<>> THEN TRUE ELSE IF ~Head(ts).done THEN FALSE ELSE Every(Tail(ts))

\* todos.some(todo => !todo.done), left to right.
RECURSIVE SomeUndone(_)
SomeUndone(ts) == IF ts = <<>> THEN FALSE ELSE IF ~Head(ts).done THEN TRUE ELSE SomeUndone(Tail(ts))

hasUndoneTodos(todoList) == SomeUndone(todoList.todos)

\* Mutant: the length test left out, every() alone.
isDoneTodoList_NoLength(todoList) == Every(todoList.todos)

isDoneTodoList(todoList) == Len(todoList.todos) > 0 /\ Every(todoList.todos)

\* The forEach of _partitionTodoLists from index i on, pushing onto undone/done.
RECURSIVE PartitionLoop(_, _, _, _)
PartitionLoop(todoLists, i, undone, done) ==
  IF i > Len(todoLists) THEN undone \o done
  ELSE IF isDoneTodoList(todoLists[i])
       THEN PartitionLoop(todoLists, i + 1, undone, Append(done, todoLists[i]))
       ELSE PartitionLoop(todoLists, i + 1, Append(undone, todoLists[i]), done)

\* Mutant: the lists returned as queried, not partitioned.
_partitionTodoLists_AsQueried(todoLists) == todoLists

_partitionTodoLists(todoLists) == PartitionLoop(todoLists, 1, <<>>, <<>>)

----------------------------------------------------------------------------
\* The queries: the rows each SELECT finds in the store.

\* ALL_TODOLISTS: WHERE username = $1 ORDER BY lower(title) ASC.  ORDER BY
\* yields the rows in an order in which no row precedes one of a smaller
\* key; rows of equal key come in either order.
LowerTitleLeq(a, b) == StrLeq(Lower(a.title), Lower(b.title))

ALL_TODOLISTS(username) ==
  {s \in Enumerations({r \in todolists : r.username = username}) :
     \A i, j \in 1..Len(s) : i < j => LowerTitleLeq(s[i], s[j])}

\* FIND_TODOS of sortedTodoLists: WHERE todolist_id = $1
FIND_TODOS_OF_LIST(todoListId) == {t \in todos : t.todolist_id = todoListId}

\* Mutant: the list looked up by id alone (the query of lines 67-68).
FIND_TODOLIST_AnyUser(todoListId, username) ==
  {r \in todolists : r.id = todoListId}

\* FIND_TODOLIST: WHERE id = $1 AND username = $2
FIND_TODOLIST(todoListId, username) ==
  {r \in todolists : r.id = todoListId /\ r.username = username}

\* FIND_TODOS of loadTodoList: WHERE todolist_id = $1 AND username = $2
FIND_TODOS(todoListId, username) ==
  {t \in todos : t.todolist_id = todoListId /\ t.username = username}

\* Mutant: ORDER BY done ASC, title ASC, the titles compared as they are.
DoneTitleLeq_CaseSensitive(a, b) ==
  \/ BoolLt(a.done, b.done)
  \/ a.done = b.done /\ StrLeq(a.title, b.title)

\* SORTED_TODOS: ... ORDER BY done ASC, lower(title) ASC
DoneTitleLeq(a, b) ==
  \/ BoolLt(a.done, b.done)
  \/ a.done = b.done /\ StrLeq(Lower(a.title), Lower(b.title))

SORTED_TODOS(todoListId, username) ==
  {s \in Enumerations(FIND_TODOS(todoListId, username)) :
     \A i, j \in 1..Len(s) : i < j => DoneTitleLeq(s[i], s[j])}

\* Mutant: the username predicate left out.
FIND_TODO_AnyUser(todoListId, todoId, username) ==
  {t \in todos : t.todolist_id = todoListId /\ t.id = todoId}

\* FIND_TODO, TOGGLE_DONE, DELETE_TODO:
\* WHERE todolist_id = $1 AND id = $2 AND username = $3
FIND_TODO(todoListId, todoId, username) ==
  {t \in todos : t.todolist_id = todoListId /\ t.id = todoId /\ t.username = username}

\* A list row with its todos attached (todoList.todos = rows).
WithTodos(row, rows) ==
  [id |-> row.id, title |-> row.title, username |-> row.username, todos |-> rows]

\* rows[0] of a result: the row, or undefined when there is none.
FirstRow(rows) == IF rows = {} THEN Undefined ELSE CHOOSE r \in rows : TRUE

----------------------------------------------------------------------------
\* The mutating statements: what each does to the store.  A statement the
\* schema rejects raises and leaves the store as it was.

\* Mutant: SET done = TRUE in place of SET done = NOT done.
ToggledTodos_SetDone(todoListId, todoId, username) ==
  LET rows == FIND_TODO(todoListId, todoId, username)
  IN  (todos \ rows) \cup {[r EXCEPT !.done = TRUE] : r \in rows}

\* The table todos after UPDATE todos SET done = NOT done WHERE ...
ToggledTodos(todoListId, todoId, username) ==
  LET rows == FIND_TODO(todoListId, todoId, username)
  IN  (todos \ rows) \cup {[r EXCEPT !.done = ~r.done] : r \in rows}

TOGGLE_DONE(todoListId, todoId, username) ==
  /\ todos' = ToggledTodos(todoListId, todoId, username)
  /\ UNCHANGED <<todolists, nextListId, nextTodoId>>

DELETE_TODO(todoListId, todoId, username) ==
  /\ todos' = todos \ FIND_TODO(todoListId, todoId, username)
  /\ UNCHANGED <<todolists, nextListId, nextTodoId>>

\* Mutant: only the todos not yet done are updated (AND NOT done).
MarkDoneAllRows_Undone(todoListId, username) ==
  {t \in todos : t.todolist_id = todoListId /\ t.username = username /\ ~t.done}

\* The rows MARK_DONE_ALL updates: WHERE todolist_id = $1 AND username = $2
MarkDoneAllRows(todoListId, username) ==
  {t \in todos : t.todolist_id = todoListId /\ t.username = username}

MARK_DONE_ALL(todoListId, username) ==
  LET rows == MarkDoneAllRows(todoListId, username)
  IN  /\ todos' = (todos \ rows) \cup {[r EXCEPT !.done = TRUE] : r \in rows}
      /\ UNCHANGED <<todolists, nextListId, nextTodoId>>

ADD_TODO(todoListId, todoTitle, username) ==
  IF ForeignKeyHolds(todoListId)
  THEN /\ todos' = todos \cup {[id |-> nextTodoId, todolist_id |-> todoListId,
                                title |-> todoTitle, done |-> FALSE,
                                username |-> username]}
       /\ nextTodoId' = nextTodoId + 1
       /\ UNCHANGED <<todolists, nextListId>>
  ELSE UNCHANGED store

SET_TODOLIST_TITLE(todoListId, todoListTitle, username) ==
  LET rows == FIND_TODOLIST(todoListId, username)
  IN  IF rows # {} /\ ~UniqueTitleHolds(todoListTitle, username, todoListId)
      THEN UNCHANGED store
      ELSE /\ todolists' = (todolists \ rows)
                             \cup {[r EXCEPT !.title = todoListTitle] : r \in rows}
           /\ UNCHANGED <<todos, nextListId, nextTodoId>>

DELETE_TODOLIST(todoListId, username) ==
  LET rows == FIND_TODOLIST(todoListId, username)
  IN  /\ todolists' = todolists \ rows
      /\ todos' = todos \ Cascade(rows)
      /\ UNCHANGED <<nextListId, nextTodoId>>

ADD_NEW_TODOLIST(todoListTitle, username) ==
  IF UniqueTitleHolds(todoListTitle, username, 0)
  THEN /\ todolists' = todolists \cup {[id |-> nextListId, title |-> todoListTitle,
                                        username |-> username]}
       /\ nextListId' = nextListId + 1
       /\ UNCHANGED <<todos, nextTodoId>>
  ELSE UNCHANGED store

----------------------------------------------------------------------------
\* The handlers.  A reading handler is given by the values its promise may
\* resolve to in the present store; a mutating handler runs its statement and
\* settles with result.rowCount > 0, or rejects when the statement
\* raised.

Settled(rowCount) == rowCount > 0

sortedTodoListsResults(username) ==
  UNION {
    {_partitionTodoLists(filled) :
       filled \in {f \in [1..Len(todoLists) ->
                            UNION {{WithTodos(todoLists[i], rows) :
                                      rows \in Enumerations(FIND_TODOS_OF_LIST(todoLists[i].id))} :
                                   i \in 1..Len(todoLists)}] :
                     \A i \in 1..Len(todoLists) :
                       /\ f[i].id = todoLists[i].id
                       /\ f[i].title = todoLists[i].title
                       /\ f[i].username = todoLists[i].username}} :
    todoLists \in ALL_TODOLISTS(username)}

\* With no statement of another request between its two reads.
loadTodoListResults(username, todoListId) ==
  LET todoList == FirstRow(FIND_TODOLIST(todoListId, username))
  IN  {IF todoList = Undefined THEN Undefined ELSE WithTodos(todoList, rows) :
         rows \in Enumerations(FIND_TODOS(todoListId, username))}

sortedTodosResults(username, todoListId) == SORTED_TODOS(todoListId, username)

loadTodoResult(username, todoListId, todoId) ==
  FirstRow(FIND_TODO(todoListId, todoId, username))

sortedTodoLists(username) ==
  /\ \E ret \in sortedTodoListsResults(username) :
       last' = Call("sortedTodoLists", username, 0, 0, ret, 0)
  /\ UNCHANGED store

loadTodoList(username, todoListId) ==
  /\ \E ret \in loadTodoListResults(username, todoListId) :
       last' = Call("loadTodoList", username, todoListId, 0, ret, 0)
  /\ UNCHANGED store

sortedTodos(username, todoListId) ==
  /\ \E ret \in sortedTodosResults(username, todoListId) :
       last' = Call("sortedTodos", username, todoListId, 0, ret, 0)
  /\ UNCHANGED store

loadTodo(username, todoListId, todoId) ==
  /\ last' = Call("loadTodo", username, todoListId, todoId,
                  loadTodoResult(username, todoListId, todoId), 0)
  /\ UNCHANGED store

toggleDoneTodo(username, todoListId, todoId) ==
  LET rowCount == Cardinality(FIND_TODO(todoListId, todoId, username))
  IN  /\ TOGGLE_DONE(todoListId, todoId, username)
      /\ last' = Call("toggleDoneTodo", username, todoListId, todoId,
                      Settled(rowCount), rowCount)

deleteTodo(username, todoListId, todoId) ==
  LET rowCount == Cardinality(FIND_TODO(todoListId, todoId, username))
  IN  /\ DELETE_TODO(todoListId, todoId, username)
      /\ last' = Call("deleteTodo", username, todoListId, todoId,
                      Settled(rowCount), rowCount)

completeAllTodos(username, todoListId) ==
  LET rowCount == Cardinality(MarkDoneAllRows(todoListId, username))
  IN  /\ MARK_DONE_ALL(todoListId, username)
      /\ last' = Call("completeAllTodos", username, todoListId, 0,
                      Settled(rowCount), rowCount)

addTodo(username, todoListId, todoTitle) ==
  /\ ADD_TODO(todoListId, todoTitle, username)
  /\ last' = IF ForeignKeyHolds(todoListId)
             THEN Call("addTodo", username, todoListId, nextTodoId, Settled(1), 1)
             ELSE Thrown("addTodo", username, todoListId, 0)

setTodoListTitle(username, todoListId, todoListTitle) ==
  LET rowCount == Cardinality(FIND_TODOLIST(todoListId, username))
  IN  /\ SET_TODOLIST_TITLE(todoListId, todoListTitle, username)
      /\ last' = IF rowCount > 0 /\ ~UniqueTitleHolds(todoListTitle, username, todoListId)
                 THEN Thrown("setTodoListTitle", username, todoListId, 0)
                 ELSE Call("setTodoListTitle", username, todoListId, 0,
                           Settled(rowCount), rowCount)

deleteTodoList(username, todoListId) ==
  LET rowCount == Cardinality(FIND_TODOLIST(todoListId, username))
  IN  /\ DELETE_TODOLIST(todoListId, username)
      /\ last' = Call("deleteTodoList", username, todoListId, 0,
                      Settled(rowCount), rowCount)

createTodoList(username, todoListTitle) ==
  /\ ADD_NEW_TODOLIST(todoListTitle, username)
  /\ last' = IF UniqueTitleHolds(todoListTitle, username, 0)
             THEN Call("createTodoList", username, nextListId, 0, Settled(1), 1)
             ELSE Thrown("createTodoList", username, 0, 0)

----------------------------------------------------------------------------
\* Spec: the mutating handlers, called by the sessions of any users, each
\* call settled before the next is made.

NoCall == Call("none", "", 0, 0, Undefined, 0)
NoLoad == [pc |-> "idle"]
NoInput == Undefined

InitStore ==
  /\ todolists = {}
  /\ todos = {}
  /\ nextListId = 1
  /\ nextTodoId = 1

Init ==
  /\ InitStore
  /\ last = NoCall
  /\ load = NoLoad
  /\ input = NoInput
  /\ output = Undefined

\* An insert is made while fewer than cap rows have been inserted; a call
\* whose insert the schema rejects is made at any time.
MayAddTodo(todoListId, cap) == Inserted < cap \/ ~ForeignKeyHolds(todoListId)
MayCreateTodoList(title, username, cap) ==
  Inserted < cap \/ ~UniqueTitleHolds(title, username, 0)

ToggleDoneTodo ==
  /\ \E u \in Users, l \in ListIds, t \in TodoIds : toggleDoneTodo(u, l, t)
  /\ UNCHANGED <<load, input, output>>
DeleteTodo ==
  /\ \E u \in Users, l \in ListIds, t \in TodoIds : deleteTodo(u, l, t)
  /\ UNCHANGED <<load, input, output>>
CompleteAllTodos ==
  /\ \E u \in Users, l \in ListIds : completeAllTodos(u, l)
  /\ UNCHANGED <<load, input, output>>
AddTodo ==
  /\ \E u \in Users, l \in ListIds, title \in Titles :
       /\ MayAddTodo(l, MaxRows)
       /\ addTodo(u, l, title)
  /\ UNCHANGED <<load, input, output>>
SetTodoListTitle ==
  /\ \E u \in Users, l \in ListIds, title \in Titles : setTodoListTitle(u, l, title)
  /\ UNCHANGED <<load, input, output>>
DeleteTodoList ==
  /\ \E u \in Users, l \in ListIds : deleteTodoList(u, l)
  /\ UNCHANGED <<load, input, output>>
CreateTodoList ==
  /\ \E u \in Users, title \in Titles :
       /\ MayCreateTodoList(title, u, MaxRows)
       /\ createTodoList(u, title)
  /\ UNCHANGED <<load, input, output>>

Next ==
  \/ ToggleDoneTodo
  \/ DeleteTodo
  \/ CompleteAllTodos
  \/ AddTodo
  \/ SetTodoListTitle
  \/ DeleteTodoList
  \/ CreateTodoList

Spec == Init /\ [][Next]_vars

----------------------------------------------------------------------------
\* SpecRead: the reading handlers, called in any store the statements of
\* the sessions can produce.

StatementBy(u, cap) ==
  \/ \E l \in ListIds, t \in TodoIds : TOGGLE_DONE(l, t, u)
  \/ \E l \in ListIds, t \in TodoIds : DELETE_TODO(l, t, u)
  \/ \E l \in ListIds : MARK_DONE_ALL(l, u)
  \/ \E l \in ListIds, title \in Titles : MayAddTodo(l, cap) /\ ADD_TODO(l, title, u)
  \/ \E l \in ListIds, title \in Titles : SET_TODOLIST_TITLE(l, title, u)
  \/ \E l \in ListIds : DELETE_TODOLIST(l, u)
  \/ \E title \in Titles : MayCreateTodoList(title, u, cap) /\ ADD_NEW_TODOLIST(title, u)

Statement(cap) == \E u \in Users : StatementBy(u, cap)

Mutate ==
  /\ Statement(MaxRows)
  /\ last' = NoCall
  /\ UNCHANGED <<load, input, output>>
SortedTodoLists ==
  /\ \E u \in Users : sortedTodoLists(u)
  /\ UNCHANGED <<load, input, output>>
LoadTodoList ==
  /\ \E u \in Users, l \in ListIds : loadTodoList(u, l)
  /\ UNCHANGED <<load, input, output>>
SortedTodos ==
  /\ \E u \in Users, l \in ListIds : sortedTodos(u, l)
  /\ UNCHANGED <<load, input, output>>
LoadTodo ==
  /\ \E u \in Users, l \in ListIds, t \in TodoIds : loadTodo(u, l, t)
  /\ UNCHANGED <<load, input, output>>

NextRead ==
  \/ Mutate
  \/ SortedTodoLists
  \/ LoadTodoList
  \/ SortedTodos
  \/ LoadTodo

SpecRead == Init /\ [][NextRead]_vars

----------------------------------------------------------------------------
\* SpecRace: loadTodoList statement by statement.  Its two queries are
\* started together (lines 62-63) and awaited jointly (line 64), so the store
\* answers them one at a time in either order, and the statements of other
\* requests run before, between and after them.

\* What the store holds of list todoListId for username: the list row with
\* the set of its todos, or undefined when the user has no such list.
ViewIn(lists, items, username, todoListId) ==
  IF \E r \in lists : r.id = todoListId /\ r.username = username
  THEN [list |-> CHOOSE r \in lists : r.id = todoListId /\ r.username = username,
        todos |-> {t \in items : t.todolist_id = todoListId /\ t.username = username}]
  ELSE Undefined

View(username, todoListId) == ViewIn(todolists, todos, username, todoListId)

\* The same of a value loadTodoList returned.
ViewOf(ret) ==
  IF ret = Undefined THEN Undefined
  ELSE [list |-> [id |-> ret.id, title |-> ret.title, username |-> ret.username],
        todos |-> {ret.todos[j] : j \in 1..Len(ret.todos)}]

\* Lines 62-63: both queries are sent.  Besides the call's own variables the
\* record keeps what the store held of the list when the first query was
\* answered (seen), at each moment from then to the second answer (views),
\* whether it changed between the two answers (between), and how many
\* statements of other requests ran between them (ran).
Launch ==
  /\ load.pc = "idle"
  /\ \E u \in Users, l \in ListIds :
       load' = [pc |-> "reading", username |-> u, todoListId |-> l,
                gotTodoList |-> FALSE, resultTodoList |-> {},
                gotTodos |-> FALSE, resultTodos |-> <<>>,
                ret |-> Undefined,
                views |-> {}, seen |-> Undefined, between |-> FALSE, ran |-> 0]
  /\ UNCHANGED <<store, last, input, output>>

\* The store answers FIND_TODOLIST.
ReadTodoList ==
  /\ load.pc = "reading"
  /\ ~load.gotTodoList
  /\ load' = [load EXCEPT !.gotTodoList = TRUE,
                          !.resultTodoList = FIND_TODOLIST(load.todoListId, load.username),
                          !.seen = IF load.gotTodos THEN @
                                   ELSE View(load.username, load.todoListId),
                          !.views = @ \cup {View(load.username, load.todoListId)}]
  /\ UNCHANGED <<store, last, input, output>>

\* The store answers FIND_TODOS.
ReadTodos ==
  /\ load.pc = "reading"
  /\ ~load.gotTodos
  /\ \E rows \in Enumerations(FIND_TODOS(load.todoListId, load.username)) :
       load' = [load EXCEPT !.gotTodos = TRUE,
                            !.resultTodos = rows,
                            !.seen = IF load.gotTodoList THEN @
                                     ELSE View(load.username, load.todoListId),
                            !.views = @ \cup {View(load.username, load.todoListId)}]
  /\ UNCHANGED <<store, last, input, output>>

\* Lines 64-72: both answers are in; undefined without a list row, else the
\* row with the todos attached.
JoinResult(resultTodoList, resultTodos) ==
  LET todoList == FirstRow(resultTodoList)
  IN  IF todoList = Undefined THEN Undefined ELSE WithTodos(todoList, resultTodos)

Join ==
  /\ load.pc = "reading"
  /\ load.gotTodoList
  /\ load.gotTodos
  /\ load' = [load EXCEPT !.pc = "done",
                          !.ret = JoinResult(load.resultTodoList, load.resultTodos)]
  /\ UNCHANGED <<store, last, input, output>>

\* The caller has the result.
Return ==
  /\ load.pc = "done"
  /\ load' = NoLoad
  /\ UNCHANGED <<store, last, input, output>>

\* A statement of another request, before the call or while it waits for an
\* answer.  (Once both answers are in, no statement changes what the call
\* returns; those are left to run after Return.)
Interleave ==
  /\ \/ load.pc = "idle"
     \/ load.pc = "reading" /\ ~load.gotTodoList /\ ~load.gotTodos
     \/ load.pc = "reading" /\ load.gotTodoList # load.gotTodos /\ load.ran < MaxBetween
  /\ Statement(MaxRaceRows)
  /\ load' = IF load.pc # "reading" \/ load.gotTodoList = load.gotTodos THEN load
             ELSE [load EXCEPT
                     !.ran = @ + 1,
                     !.views = @ \cup {ViewIn(todolists', todos',
                                              load.username, load.todoListId)},
                     !.between = \/ @
                                 \/ ViewIn(todolists', todos',
                                           load.username, load.todoListId)
                                      # View(load.username, load.todoListId)]
  /\ UNCHANGED <<last, input, output>>

NextRace ==
  \/ Launch
  \/ ReadTodoList
  \/ ReadTodos
  \/ Join
  \/ Return
  \/ Interleave

SpecRace == Init /\ [][NextRace]_vars

----------------------------------------------------------------------------
\* SpecPure: the helpers on a todo list, applied to any todo list of up to
\* MaxLen todos.

TodoListsWith(n) ==
  {[id |-> 1, title |-> <<97>>, username |-> "u1",
    todos |-> [j \in 1..n |-> [id |-> j, todolist_id |-> 1, title |-> f[j][1],
                               done |-> f[j][2], username |-> "u1"]]] :
     f \in [1..n -> Titles \X BOOLEAN]}

InitPure ==
  /\ InitStore
  /\ last = NoCall
  /\ load = NoLoad
  /\ input \in UNION {TodoListsWith(n) : n \in 0..MaxLen}
  /\ output = Undefined

IsDoneTodoList ==
  /\ output' = [fn |-> "isDoneTodoList", ret |-> isDoneTodoList(input)]
  /\ UNCHANGED <<store, last, load, input>>

HasUndoneTodos ==
  /\ output' = [fn |-> "hasUndoneTodos", ret |-> hasUndoneTodos(input)]
  /\ UNCHANGED <<store, last, load, input>>

NextPure ==
  \/ IsDoneTodoList
  \/ HasUndoneTodos

SpecPure == InitPure /\ [][NextPure]_vars

----------------------------------------------------------------------------
\* Properties of the mutating handlers (Spec).

\* C1: every todo row's (todolist_id, username) pair references a row of
\* todolists with that id and the same username.
C1_TodoReferencesOwnList ==
  \A t \in todos : \E r \in todolists : r.id = t.todolist_id /\ r.username = t.username

\* C3: deleteTodo and deleteTodoList return false when no row matches for the
\* session's username; when one matches they return true and the load of the
\* same ids by the same user that follows finds nothing (undefined).
C3_DeleteThenLoadNotFound ==
  [][\A u \in {last'.username}, l \in {last'.todoListId}, t \in {last'.todoId} :
       /\ last'.op = "deleteTodo"
          => /\ ~last'.threw
             /\ last'.ret = (\E r \in todos : r.todolist_id = l /\ r.id = t /\ r.username = u)
             /\ last'.ret => (loadTodoResult(u, l, t) = Undefined)'
       /\ last'.op = "deleteTodoList"
          => /\ ~last'.threw
             /\ last'.ret = (\E r \in todolists : r.id = l /\ r.username = u)
             /\ last'.ret => (loadTodoListResults(u, l) = {Undefined})'
    ]_vars

C3_Witness ==
  /\ last.op = "deleteTodoList"
  /\ ~last.threw
  /\ last.ret
  /\ last.rowCount = 1
  /\ loadTodoListResults(last.username, last.todoListId) = {Undefined}

\* The row a mutating call was aimed at is not in the store it was made in.
TargetMissing(call) ==
  CASE call.op \in {"toggleDoneTodo", "deleteTodo"} ->
         ~\E r \in todos : /\ r.todolist_id = call.todoListId
                           /\ r.id = call.todoId
                           /\ r.username = call.username
    [] call.op = "completeAllTodos" ->
         ~\E r \in todos : r.todolist_id = call.todoListId /\ r.username = call.username
    [] call.op \in {"addTodo", "setTodoListTitle", "deleteTodoList"} ->
         ~\E r \in todolists : r.id = call.todoListId /\ r.username = call.username
    [] OTHER -> FALSE

Mutations ==
  {"toggleDoneTodo", "deleteTodo", "completeAllTodos", "addTodo",
   "setTodoListTitle", "deleteTodoList", "createTodoList"}

\* C4: a mutating call returns true exactly when its statement affected at
\* least one row, and returns false, not an error, when the row it is aimed
\* at does not exist; so addTodo with a list id that does not exist for the
\* user returns false.
C4_FalseWhenTargetMissing ==
  [][last'.op \in Mutations =>
       /\ ~last'.threw => (last'.ret = (last'.rowCount > 0))
       /\ TargetMissing(last') => (~last'.threw /\ last'.ret = FALSE)
    ]_vars

\* C5: toggleDoneTodo on a todo that exists for the session's username
\* returns true and negates that todo's done, leaving every other todo and
\* every list as it was; the same call made again then returns true and
\* brings the todos back to what they were before the first.
C5_ToggleSelfInverse ==
  [][\A u \in {last'.username}, l \in {last'.todoListId}, t \in {last'.todoId} :
       (/\ last'.op = "toggleDoneTodo"
        /\ \E r \in todos : r.todolist_id = l /\ r.id = t /\ r.username = u)
       => /\ ~last'.threw /\ last'.ret = TRUE
          /\ \A r \in todos :
               IF r.todolist_id = l /\ r.id = t /\ r.username = u
               THEN [r EXCEPT !.done = ~r.done] \in todos' /\ r \notin todos'
               ELSE r \in todos'
          /\ Cardinality(todos') = Cardinality(todos)
          /\ UNCHANGED <<todolists, nextListId, nextTodoId>>
          /\ (FIND_TODO(l, t, u) # {})'
          /\ ToggledTodos(l, t, u)' = todos
    ]_vars

C5_Witness ==
  /\ last.op = "toggleDoneTodo"
  /\ ~last.threw
  /\ last.ret
  /\ \E r \in todos : /\ r.todolist_id = last.todoListId
                      /\ r.id = last.todoId
                      /\ r.username = last.username
                      /\ ~r.done

\* C6: completeAllTodos returns true exactly when the list has a todo row of
\* the session's username, done already or not, so false on a list without
\* todos and on a list that does not exist; afterwards every todo of that
\* list owned by the user is done and the todos of other lists are as before.
C6_CompleteAll ==
  [][\A u \in {last'.username}, l \in {last'.todoListId} :
       last'.op = "completeAllTodos"
       => /\ ~last'.threw
          /\ last'.ret = (\E r \in todos : r.todolist_id = l /\ r.username = u)
          /\ \A r \in todos' : (r.todolist_id = l /\ r.username = u) => r.done
          /\ {r \in todos' : r.todolist_id # l} = {r \in todos : r.todolist_id # l}
          /\ {r.id : r \in todos'} = {r.id : r \in todos}
          /\ UNCHANGED todolists
    ]_vars

C6_Witness ==
  /\ last.op = "completeAllTodos"
  /\ ~last.threw
  /\ last.ret
  /\ last.rowCount = 2
  /\ \A r \in todos : r.done

----------------------------------------------------------------------------
\* Properties of the reading handlers (SpecRead).

\* The rows a reading call returned all carry the caller's username: the
\* lists, and the todos attached to them.
ReadsScoped ==
  /\ last.op = "sortedTodoLists" =>
       \A i \in 1..Len(last.ret) :
         /\ last.ret[i].username = last.username
         /\ \A j \in 1..Len(last.ret[i].todos) :
              last.ret[i].todos[j].username = last.username
  /\ (last.op = "loadTodoList" /\ last.ret # Undefined) =>
       /\ last.ret.username = last.username
       /\ \A j \in 1..Len(last.ret.todos) : last.ret.todos[j].username = last.username
  /\ last.op = "sortedTodos" =>
       \A j \in 1..Len(last.ret) : last.ret[j].username = last.username
  /\ (last.op = "loadTodo" /\ last.ret # Undefined) =>
       last.ret.username = last.username

\* The rows of the other users are the same before and after the step.
OthersUntouched(u) ==
  /\ {r \in todolists' : r.username # u} = {r \in todolists : r.username # u}
  /\ {r \in todos' : r.username # u} = {r \in todos : r.username # u}

\* C2: every statement is filtered by the session's username: the lists and
\* todos that sortedTodoLists, loadTodoList, sortedTodos and loadTodo return
\* have the caller's username, and no statement of a session changes a row
\* of another username.
C2_UsernameScoped ==
  [][/\ ReadsScoped'
     /\ \A u \in Users : StatementBy(u, MaxRows) => OthersUntouched(u)
    ]_vars

\* A list is done when it has a todo and all its todos are done.
DoneList(todoList) ==
  /\ Len(todoList.todos) >= 1
  /\ \A j \in 1..Len(todoList.todos) : todoList.todos[j].done

\* C7: sortedTodoLists returns every todo list of the session's username
\* exactly once, every undone list before every done list, and within the
\* undone lists and within the done lists the lower-cased titles in
\* non-decreasing order.
C7_SortedTodoLists ==
  last.op = "sortedTodoLists" =>
    LET ret == last.ret
        n == Len(ret)
    IN  /\ {[id |-> ret[i].id, title |-> ret[i].title, username |-> ret[i].username] :
              i \in 1..n} = {r \in todolists : r.username = last.username}
        /\ n = Cardinality({r \in todolists : r.username = last.username})
        /\ \A i, j \in 1..n :
             i < j =>
               /\ ~(DoneList(ret[i]) /\ ~DoneList(ret[j]))
               /\ DoneList(ret[i]) = DoneList(ret[j])
                    => StrLeq(Lower(ret[i].title), Lower(ret[j].title))

C7_Witness ==
  /\ last.op = "sortedTodoLists"
  /\ Len(last.ret) = 2
  /\ ~DoneList(last.ret[1])
  /\ DoneList(last.ret[2])
  /\ last.ret[1].title = <<66>>
  /\ last.ret[2].title = <<97>>

\* C9: sortedTodos returns exactly the todos of the list that the session's
\* username owns, an undone todo before a done one, and todos of equal done
\* in non-decreasing order of their lower-cased titles.
C9_SortedTodos ==
  last.op = "sortedTodos" =>
    LET ret == last.ret
        n == Len(ret)
        owned == {t \in todos : t.todolist_id = last.todoListId /\ t.username = last.username}
    IN  /\ {ret[i] : i \in 1..n} = owned
        /\ n = Cardinality(owned)
        /\ \A i, j \in 1..n :
             i < j =>
               /\ ~(ret[i].done /\ ~ret[j].done)
               /\ ret[i].done = ret[j].done
                    => StrLeq(Lower(ret[i].title), Lower(ret[j].title))

C9_Witness ==
  /\ last.op = "sortedTodos"
  /\ Len(last.ret) = 2
  /\ ~last.ret[1].done
  /\ ~last.ret[2].done
  /\ last.ret[1].title = <<97>>
  /\ last.ret[2].title = <<66>>

----------------------------------------------------------------------------
\* Property of isDoneTodoList (SpecPure).

\* C8: isDoneTodoList(L) is true exactly when L.todos is non-empty and every
\* todo of L.todos is done: a list without todos is undone, and so is a list
\* with a todo that is not done.
C8_IsDoneTodoList ==
  (output # Undefined /\ output.fn = "isDoneTodoList") =>
    LET n == Len(input.todos)
    IN  /\ output.ret = (n > 0 /\ \A j \in 1..n : input.todos[j].done)
        /\ n = 0 => ~output.ret
        /\ (\E j \in 1..n : ~input.todos[j].done) => ~output.ret

C8_Witness ==
  /\ output # Undefined
  /\ output.fn = "isDoneTodoList"
  /\ output.ret
  /\ Len(input.todos) = 2

----------------------------------------------------------------------------
\* Property of loadTodoList under interleaving (SpecRace).

\* C10: when the store's contents of the list did not change between the
\* two reads, loadTodoList returns what the store held of the list when they
\* were answered; it returns undefined whenever the list read found no row,
\* whatever the todos read found, and the list row with the todos read
\* otherwise.  With a statement of another request between the two reads it
\* can return a list with todos that the store held at no moment of the call
\* (C10_Witness: the list row with the empty set of todos that a cascading
\* delete left).
C10_LoadTodoListReads ==
  load.pc = "done" =>
    /\ ~load.between => ViewOf(load.ret) = load.seen
    /\ load.resultTodoList = {} => load.ret = Undefined
    /\ load.resultTodoList # {} =>
         /\ load.ret # Undefined
         /\ ViewOf(load.ret).list \in load.resultTodoList
         /\ load.ret.todos = load.resultTodos

C10_Witness ==
  /\ load.pc = "done"
  /\ load.between
  /\ load.ret # Undefined
  /\ load.ret.todos = <<>>
  /\ ViewOf(load.ret) \notin load.views
  /\ View(load.username, load.todoListId) = Undefined

====
